---- MODULE Spec2Model ----
(***************************************************************************)
(* Model of the disk-head scheduling engine of disksimulation.py: the Disk *)
(* object and its four schedule methods (FCFS, SSTF, SCAN, C-SCAN).  One   *)
(* action per method entry, per loop-iteration branch and per return.      *)
(***************************************************************************)
EXTENDS Integers, Sequences, FiniteSets

\* Bounds of the exhaustively enumerated inputs.
MaxCylinders == 4
MaxRequests == 3

\* Bounds of the inputs that are enumerated without the validity filter.
MaxUncheckedCylinders == 2
MaxUncheckedRequests == 2

\* Bound of the step counter: no boundary or wrap branch is explored beyond it.
\* A run on valid input never comes near it.
MaxStep == 9

\* The example input of the __main__ block.
ExTotalCylinders == 200
ExStartHead == 50
ExRequestQueue == <<82, 170, 43, 140, 24, 16, 190>>

\* The starvation workload of workload_starvation_demo.py.
StarvationTotalCylinders == 200
StarvationStartHead == 50
StarvationRequestQueue == <<51, 49, 52, 48, 50, 195, 5>>

VARIABLES
  disk,               \* the Disk object: total_cylinders, current_head, request_queue, original_requests
  pc,                 \* "idle" (constructed), "loop" (inside a schedule method), "done" (method returned)
  algorithm,          \* the schedule method being run
  direction,          \* the direction argument of scan_schedule / c_scan_schedule
  current_head,       \* local current_head
  requests,           \* local working copy of the queue
  total_movement,     \* local total_movement
  sequence,           \* local sequence
  movements,          \* local movements
  step,               \* local step counter
  current_direction,  \* local current_direction
  i,                  \* enumerate index of the FCFS for loop
  result,             \* the dict returned by the last finished call
  synthetic,          \* history: synthetic[k] iff sequence[k] is a boundary visit, not a request
  caller_list,        \* the list object the caller passed to Disk(...)
  ref,                \* identity of the list object each name is bound to
  saved,              \* a returned dict the caller kept (all_results[...]), NoResult if none
  demo,               \* what the last call of a workload_starvation_demo.py method returned
  all_results,        \* __main__'s all_results, the returned dicts in insertion order
  efficiency          \* outcome of display_comprehensive_comparison

vars == <<disk, pc, algorithm, direction, current_head, requests, total_movement,
          sequence, movements, step, current_direction, i, result, synthetic,
          caller_list, ref, saved, demo, all_results, efficiency>>

----------------------------------------------------------------------------
\* Pure helpers

\* abs()
Abs(x) == IF x < 0 THEN -x ELSE x

\* a scan that replaces the best element on a non-strict comparison:
\* the LAST closest element wins.
RECURSIVE MinByKeyLast(_, _, _, _)
MinByKeyLast(reqs, head, best, k) ==
  IF k > Len(reqs) THEN best
  ELSE IF Abs(reqs[k] - head) <= Abs(best - head)
       THEN MinByKeyLast(reqs, head, reqs[k], k + 1)
       ELSE MinByKeyLast(reqs, head, best, k + 1)

\* min(iterable, key=...): a left-to-right scan that keeps the first element
\* and replaces it only by a strictly smaller key.
RECURSIVE MinByKey(_, _, _, _)
MinByKey(reqs, head, best, k) ==
  IF k > Len(reqs) THEN best
  ELSE IF Abs(reqs[k] - head) < Abs(best - head)
       THEN MinByKey(reqs, head, reqs[k], k + 1)
       ELSE MinByKey(reqs, head, best, k + 1)

\* a scan whose key is the signed difference x - current_head
RECURSIVE MinByKeySigned(_, _, _, _)
MinByKeySigned(reqs, head, best, k) ==
  IF k > Len(reqs) THEN best
  ELSE IF reqs[k] - head < best - head
       THEN MinByKeySigned(reqs, head, reqs[k], k + 1)
       ELSE MinByKeySigned(reqs, head, best, k + 1)

ClosestSigned(reqs, head) == MinByKeySigned(reqs, head, reqs[1], 2)

ClosestLast(reqs, head) == MinByKeyLast(reqs, head, reqs[1], 2)

\* closest_request = min(requests, key=lambda x: abs(x - current_head))
Closest(reqs, head) == MinByKey(reqs, head, reqs[1], 2)

\* a removal that drops every occurrence of x
RemoveAll(s, x) == SelectSeq(s, LAMBDA e : e # x)

\* list.remove(x): drops the first occurrence of x
Remove(s, x) ==
  LET k == CHOOSE j \in 1..Len(s) : s[j] = x /\ \A m \in 1..(j - 1) : s[m] # x
  IN  SubSeq(s, 1, k - 1) \o SubSeq(s, k + 1, Len(s))

\* [r for r in requests if r >= current_head]
RightRequests(reqs, head) == SelectSeq(reqs, LAMBDA r : r >= head)

\* [r for r in requests if r <= current_head]
LeftRequests(reqs, head) == SelectSeq(reqs, LAMBDA r : r <= head)

\* max(list) of a non-empty list of integers
SeqMax(s) == CHOOSE x \in {s[k] : k \in 1..Len(s)} : \A y \in {s[k] : k \in 1..Len(s)} : y <= x

\* min(list) of a non-empty list of integers
SeqMin(s) == CHOOSE x \in {s[k] : k \in 1..Len(s)} : \A y \in {s[k] : k \in 1..Len(s)} : x <= y

\* an average that forgets the empty-queue guard
AverageSeekUnguarded(total, n) == [num |-> total, den |-> n]

\* an average over the number of recorded steps
AverageSeekBySteps(total, n) ==
  IF n > 0 THEN [num |-> total, den |-> Len(sequence)] ELSE [num |-> 0, den |-> 1]

\* total_movement / len(queue) if queue else 0, kept as the exact quotient num/den
AverageSeek(total, n) ==
  IF n > 0 THEN [num |-> total, den |-> n] ELSE [num |-> 0, den |-> 1]

NoResult ==
  [algorithm |-> "none", total_movement |-> 0, average_seek |-> [num |-> 0, den |-> 1],
   sequence |-> <<>>, movements |-> <<>>, final_position |-> 0, direction |-> "none"]

\* display_comprehensive_comparison has not been called
NotShown == [shown |-> FALSE, fault |-> FALSE, rows |-> <<>>]

\* no demo method has returned
NoDemo == [algorithm |-> "none", direction |-> "none", total_movement |-> 0, sequence |-> <<>>]

----------------------------------------------------------------------------
\* List objects.  The caller's list is object 0; list.copy() makes a new object.

\* a constructor that keeps the caller's list itself: self.request_queue = request_queue
CtorRefsShared ==
  [caller |-> 0, request_queue |-> 0, original_requests |-> 2, requests |-> 3]

\* self.request_queue = request_queue.copy(); self.original_requests = request_queue.copy()
CtorRefs ==
  [caller |-> 0, request_queue |-> 1, original_requests |-> 2, requests |-> 3]

\* requests = self.request_queue: the local name bound to the Disk's own list
WorkingRefShared == ref.request_queue

\* requests = self.request_queue.copy(): a list object of its own
WorkingRef == 3

\* a removal that reaches the Disk's queue whatever the local name is bound to
StoreRequestsThroughDisk(new) ==
  /\ requests' = new
  /\ disk' = [disk EXCEPT !.request_queue = new]
  /\ caller_list' = caller_list

\* requests.remove(...): the list object bound to requests changes, and with
\* it every other name bound to the same object
StoreRequests(new) ==
  /\ requests' = new
  /\ disk' = [disk EXCEPT
       !.request_queue = IF ref.request_queue = ref.requests THEN new ELSE @,
       !.original_requests = IF ref.original_requests = ref.requests THEN new ELSE @]
  /\ caller_list' = IF ref.caller = ref.requests THEN new ELSE caller_list

----------------------------------------------------------------------------
\* Inputs

RECURSIVE SeqsUpTo(_, _)
SeqsUpTo(S, n) ==
  IF n = 0 THEN {<<>>}
  ELSE LET shorter == SeqsUpTo(S, n - 1)
       IN  shorter \cup {Append(s, x) : s \in {t \in shorter : Len(t) = n - 1}, x \in S}

\* Disk.__init__
NewDisk(total_cylinders, start_head, request_queue) ==
  [total_cylinders |-> total_cylinders, current_head |-> start_head,
   request_queue |-> request_queue, original_requests |-> request_queue]

IsValid(d) ==
  /\ d.total_cylinders >= 1
  /\ d.current_head \in 0..(d.total_cylinders - 1)
  /\ \A k \in 1..Len(d.request_queue) : d.request_queue[k] \in 0..(d.total_cylinders - 1)

ValidDisks ==
  {d \in {NewDisk(n, h, q) : n \in 1..MaxCylinders, h \in 0..(MaxCylinders - 1),
                             q \in SeqsUpTo(0..(MaxCylinders - 1), MaxRequests)} : IsValid(d)}

ExampleDisk == NewDisk(ExTotalCylinders, ExStartHead, ExRequestQueue)

StarvationDisk ==
  NewDisk(StarvationTotalCylinders, StarvationStartHead, StarvationRequestQueue)

Directions == {"right", "left"}

Init ==
  /\ disk \in ValidDisks \cup {ExampleDisk, StarvationDisk}
  /\ pc = "idle"
  /\ algorithm = "none"
  /\ direction = "none"
  /\ current_head = disk.current_head
  /\ requests = <<>>
  /\ total_movement = 0
  /\ sequence = <<>>
  /\ movements = <<>>
  /\ step = 1
  /\ current_direction = "none"
  /\ i = 0
  /\ result = NoResult
  /\ synthetic = <<>>
  /\ caller_list = disk.request_queue
  /\ ref = CtorRefs
  /\ saved = NoResult
  /\ demo = NoDemo
  /\ all_results = <<>>
  /\ efficiency = NotShown

----------------------------------------------------------------------------
\* Method entry: the local initialisations of a schedule method

Enter(alg, dir) ==
  /\ pc \in {"idle", "done"}
  /\ pc' = "loop"
  /\ algorithm' = alg
  /\ direction' = dir
  /\ current_head' = disk.current_head
  /\ requests' = disk.request_queue
  /\ total_movement' = 0
  /\ sequence' = <<>>
  /\ movements' = <<>>
  /\ step' = 1
  /\ current_direction' = dir
  /\ i' = 0
  /\ result' = NoResult
  /\ synthetic' = <<>>
  /\ ref' = [ref EXCEPT !.requests = WorkingRef]
  /\ demo' = NoDemo
  /\ UNCHANGED <<disk, caller_list, saved, all_results, efficiency>>

FcfsCall == Enter("FCFS", "none")

SstfCall == Enter("SSTF", "none")

ScanCall == \E dir \in Directions : Enter("SCAN", dir)

CScanCall == \E dir \in Directions : Enter("C-SCAN", dir)

\* One serviced request: the bookkeeping shared by every service branch
Service(next_request) ==
  /\ total_movement' = total_movement + Abs(current_head - next_request)
  /\ sequence' = Append(sequence, next_request)
  /\ movements' = Append(movements, Abs(current_head - next_request))
  /\ synthetic' = Append(synthetic, FALSE)
  /\ current_head' = next_request

\* a returned dict whose final_position is self.current_head
ReturnStartHead(n) ==
  /\ pc' = "done"
  /\ result' = [algorithm |-> algorithm, total_movement |-> total_movement,
                average_seek |-> AverageSeek(total_movement, n),
                sequence |-> sequence, movements |-> movements,
                final_position |-> disk.current_head, direction |-> direction]
  /\ UNCHANGED <<disk, algorithm, direction, current_head, requests, total_movement,
                 sequence, movements, step, current_direction, i, synthetic,
                 caller_list, ref, saved, demo, all_results, efficiency>>

\* average_seek and the returned dict
Return(n) ==
  /\ pc' = "done"
  /\ result' = [algorithm |-> algorithm, total_movement |-> total_movement,
                average_seek |-> AverageSeek(total_movement, n),
                sequence |-> sequence, movements |-> movements,
                final_position |-> current_head, direction |-> direction]
  /\ UNCHANGED <<disk, algorithm, direction, current_head, requests, total_movement,
                 sequence, movements, step, current_direction, i, synthetic,
                 caller_list, ref, saved, demo, all_results, efficiency>>

\* A synthetic visit of boundary cylinder b, recorded in sequence and movements
Boundary(b) ==
  /\ sequence' = Append(sequence, b)
  /\ movements' = Append(movements, Abs(current_head - b))
  /\ synthetic' = Append(synthetic, TRUE)

----------------------------------------------------------------------------
\* fcfs_schedule

\* a loop body that measures every movement but never moves the head
FcfsStepHeadNotMoved ==
  /\ pc = "loop" /\ algorithm = "FCFS"
  /\ i < Len(requests)
  /\ total_movement' = total_movement + Abs(current_head - requests[i + 1])
  /\ sequence' = Append(sequence, requests[i + 1])
  /\ movements' = Append(movements, Abs(current_head - requests[i + 1]))
  /\ synthetic' = Append(synthetic, FALSE)
  /\ i' = i + 1
  /\ UNCHANGED <<disk, pc, algorithm, direction, current_head, requests, step,
                 current_direction, result,
                 caller_list, ref, saved, demo, all_results, efficiency>>

\* for i, request in enumerate(requests): ...
FcfsStep ==
  /\ pc = "loop" /\ algorithm = "FCFS"
  /\ i < Len(requests)
  /\ Service(requests[i + 1])
  /\ i' = i + 1
  /\ UNCHANGED <<disk, pc, algorithm, direction, requests, step, current_direction, result,
                 caller_list, ref, saved, demo, all_results, efficiency>>

FcfsReturn ==
  /\ pc = "loop" /\ algorithm = "FCFS"
  /\ i = Len(requests)
  /\ Return(Len(requests))

----------------------------------------------------------------------------
\* sstf_schedule

\* a loop body that services the closest request but removes the oldest one
SstfStepPopsFirst ==
  /\ pc = "loop" /\ algorithm = "SSTF"
  /\ requests # <<>>
  /\ Service(Closest(requests, current_head))
  /\ StoreRequests(Tail(requests))
  /\ step' = step + 1
  /\ UNCHANGED <<pc, algorithm, direction, current_direction, i, result, ref, saved, demo,
                 all_results, efficiency>>

\* while requests: service the closest request and remove it
SstfStep ==
  /\ pc = "loop" /\ algorithm = "SSTF"
  /\ requests # <<>>
  /\ LET closest_request == Closest(requests, current_head)
     IN  /\ Service(closest_request)
         /\ StoreRequests(Remove(requests, closest_request))
  /\ step' = step + 1
  /\ UNCHANGED <<pc, algorithm, direction, current_direction, i, result, ref, saved, demo,
                 all_results, efficiency>>

SstfReturn ==
  /\ pc = "loop" /\ algorithm = "SSTF"
  /\ requests = <<>>
  /\ Return(Len(disk.request_queue))

----------------------------------------------------------------------------
\* scan_schedule

\* the farthest request on the right
ScanNextRightFarthest(reqs, head) == SeqMax(RightRequests(reqs, head))

\* next_request = min(right_requests)
ScanNextRight(reqs, head) == SeqMin(RightRequests(reqs, head))

\* next_request = max(left_requests)
ScanNextLeft(reqs, head) == SeqMax(LeftRequests(reqs, head))

ScanRightService ==
  /\ pc = "loop" /\ algorithm = "SCAN"
  /\ requests # <<>>
  /\ current_direction = "right"
  /\ RightRequests(requests, current_head) # <<>>
  /\ LET next_request == ScanNextRight(requests, current_head)
     IN  /\ Service(next_request)
         /\ StoreRequests(Remove(requests, next_request))
  /\ step' = step + 1
  /\ UNCHANGED <<pc, algorithm, direction, current_direction, i, result, ref, saved, demo,
                 all_results, efficiency>>

\* a right sweep that runs one cylinder past the end
ScanRightBoundaryPastEnd ==
  /\ pc = "loop" /\ algorithm = "SCAN"
  /\ requests # <<>>
  /\ step <= MaxStep
  /\ current_direction = "right"
  /\ RightRequests(requests, current_head) = <<>>
  /\ total_movement' = total_movement + Abs(current_head - (disk.total_cylinders))
  /\ Boundary(disk.total_cylinders)
  /\ current_head' = disk.total_cylinders
  /\ current_direction' = "left"
  /\ step' = step + 1
  /\ UNCHANGED <<disk, pc, algorithm, direction, requests, i, result,
                 caller_list, ref, saved, demo, all_results, efficiency>>

ScanRightBoundary ==
  /\ pc = "loop" /\ algorithm = "SCAN"
  /\ requests # <<>>
  /\ step <= MaxStep
  /\ current_direction = "right"
  /\ RightRequests(requests, current_head) = <<>>
  /\ total_movement' = total_movement + Abs(current_head - (disk.total_cylinders - 1))
  /\ Boundary(disk.total_cylinders - 1)
  /\ current_head' = disk.total_cylinders - 1
  /\ current_direction' = "left"
  /\ step' = step + 1
  /\ UNCHANGED <<disk, pc, algorithm, direction, requests, i, result,
                 caller_list, ref, saved, demo, all_results, efficiency>>

ScanLeftService ==
  /\ pc = "loop" /\ algorithm = "SCAN"
  /\ requests # <<>>
  /\ current_direction # "right"
  /\ LeftRequests(requests, current_head) # <<>>
  /\ LET next_request == ScanNextLeft(requests, current_head)
     IN  /\ Service(next_request)
         /\ StoreRequests(Remove(requests, next_request))
  /\ step' = step + 1
  /\ UNCHANGED <<pc, algorithm, direction, current_direction, i, result, ref, saved, demo,
                 all_results, efficiency>>

ScanLeftBoundary ==
  /\ pc = "loop" /\ algorithm = "SCAN"
  /\ requests # <<>>
  /\ step <= MaxStep
  /\ current_direction # "right"
  /\ LeftRequests(requests, current_head) = <<>>
  /\ total_movement' = total_movement + Abs(current_head - 0)
  /\ Boundary(0)
  /\ current_head' = 0
  /\ current_direction' = "right"
  /\ step' = step + 1
  /\ UNCHANGED <<disk, pc, algorithm, direction, requests, i, result,
                 caller_list, ref, saved, demo, all_results, efficiency>>

ScanReturn ==
  /\ pc = "loop" /\ algorithm = "SCAN"
  /\ requests = <<>>
  /\ Return(Len(disk.request_queue))

----------------------------------------------------------------------------
\* c_scan_schedule

\* a jump cost that is off by one
CScanJumpAllCylinders == disk.total_cylinders

\* jump_movement = self.total_cylinders - 1
CScanJumpMovement == disk.total_cylinders - 1

CScanRightService ==
  /\ pc = "loop" /\ algorithm = "C-SCAN"
  /\ requests # <<>>
  /\ current_direction = "right"
  /\ RightRequests(requests, current_head) # <<>>
  /\ LET next_request == SeqMin(RightRequests(requests, current_head))
     IN  /\ Service(next_request)
         /\ StoreRequests(Remove(requests, next_request))
  /\ step' = step + 1
  /\ UNCHANGED <<pc, algorithm, direction, current_direction, i, result, ref, saved, demo,
                 all_results, efficiency>>

\* an end-of-sweep branch that turns around as SCAN does
CScanRightWrapReversing ==
  /\ pc = "loop" /\ algorithm = "C-SCAN"
  /\ requests # <<>>
  /\ step <= MaxStep
  /\ current_direction = "right"
  /\ RightRequests(requests, current_head) = <<>>
  /\ total_movement' = total_movement + Abs(current_head - (disk.total_cylinders - 1))
  /\ Boundary(disk.total_cylinders - 1)
  /\ current_head' = disk.total_cylinders - 1
  /\ current_direction' = "left"
  /\ step' = step + 1
  /\ UNCHANGED <<disk, pc, algorithm, direction, requests, i, result,
                 caller_list, ref, saved, demo, all_results, efficiency>>

\* boundary visit of the last cylinder, then the jump to cylinder 0
CScanRightWrap ==
  /\ pc = "loop" /\ algorithm = "C-SCAN"
  /\ requests # <<>>
  /\ step <= MaxStep
  /\ current_direction = "right"
  /\ RightRequests(requests, current_head) = <<>>
  /\ total_movement' = total_movement + Abs(current_head - (disk.total_cylinders - 1))
                                      + CScanJumpMovement
  /\ Boundary(disk.total_cylinders - 1)
  /\ current_head' = 0
  /\ step' = step + 2
  /\ UNCHANGED <<disk, pc, algorithm, direction, requests, current_direction, i, result,
                 caller_list, ref, saved, demo, all_results, efficiency>>

CScanLeftService ==
  /\ pc = "loop" /\ algorithm = "C-SCAN"
  /\ requests # <<>>
  /\ current_direction # "right"
  /\ LeftRequests(requests, current_head) # <<>>
  /\ LET next_request == SeqMax(LeftRequests(requests, current_head))
     IN  /\ Service(next_request)
         /\ StoreRequests(Remove(requests, next_request))
  /\ step' = step + 1
  /\ UNCHANGED <<pc, algorithm, direction, current_direction, i, result, ref, saved, demo,
                 all_results, efficiency>>

\* a left wrap that visits cylinder 0 and stays there
CScanLeftWrapNoJump ==
  /\ pc = "loop" /\ algorithm = "C-SCAN"
  /\ requests # <<>>
  /\ step <= MaxStep
  /\ current_direction # "right"
  /\ LeftRequests(requests, current_head) = <<>>
  /\ total_movement' = total_movement + Abs(current_head - 0) + CScanJumpMovement
  /\ Boundary(0)
  /\ current_head' = 0
  /\ step' = step + 2
  /\ UNCHANGED <<disk, pc, algorithm, direction, requests, current_direction, i, result,
                 caller_list, ref, saved, demo, all_results, efficiency>>

\* a left wrap that resumes one cylinder past the end
CScanLeftWrapPastEnd ==
  /\ pc = "loop" /\ algorithm = "C-SCAN"
  /\ requests # <<>>
  /\ step <= MaxStep
  /\ current_direction # "right"
  /\ LeftRequests(requests, current_head) = <<>>
  /\ total_movement' = total_movement + Abs(current_head - 0) + CScanJumpMovement
  /\ Boundary(0)
  /\ current_head' = disk.total_cylinders
  /\ step' = step + 2
  /\ UNCHANGED <<disk, pc, algorithm, direction, requests, current_direction, i, result,
                 caller_list, ref, saved, demo, all_results, efficiency>>

\* boundary visit of cylinder 0, then the jump to the last cylinder
CScanLeftWrap ==
  /\ pc = "loop" /\ algorithm = "C-SCAN"
  /\ requests # <<>>
  /\ step <= MaxStep
  /\ current_direction # "right"
  /\ LeftRequests(requests, current_head) = <<>>
  /\ total_movement' = total_movement + Abs(current_head - 0) + CScanJumpMovement
  /\ Boundary(0)
  /\ current_head' = disk.total_cylinders - 1
  /\ step' = step + 2
  /\ UNCHANGED <<disk, pc, algorithm, direction, requests, current_direction, i, result,
                 caller_list, ref, saved, demo, all_results, efficiency>>

CScanReturn ==
  /\ pc = "loop" /\ algorithm = "C-SCAN"
  /\ requests = <<>>
  /\ Return(Len(disk.request_queue))

----------------------------------------------------------------------------
Next ==
  \/ FcfsCall \/ FcfsStep \/ FcfsReturn
  \/ SstfCall \/ SstfStep \/ SstfReturn
  \/ ScanCall \/ ScanRightService \/ ScanRightBoundary
  \/ ScanLeftService \/ ScanLeftBoundary \/ ScanReturn
  \/ CScanCall \/ CScanRightService \/ CScanRightWrap
  \/ CScanLeftService \/ CScanLeftWrap \/ CScanReturn

Spec == Init /\ [][Next]_vars

\* A method that was entered keeps executing: the interpreter runs the loop
\* body and the return statement without waiting for anything.
Run ==
  \/ FcfsStep \/ FcfsReturn
  \/ SstfStep \/ SstfReturn
  \/ ScanRightService \/ ScanRightBoundary
  \/ ScanLeftService \/ ScanLeftBoundary \/ ScanReturn
  \/ CScanRightService \/ CScanRightWrap
  \/ CScanLeftService \/ CScanLeftWrap \/ CScanReturn

LiveSpec == Spec /\ WF_vars(Run)

----------------------------------------------------------------------------
\* Repeated calls: the caller keeps one of the returned dicts, as __main__
\* does with all_results[...] = ..., and goes on calling methods.

Keep ==
  /\ pc = "done"
  /\ saved = NoResult
  /\ saved' = result
  /\ UNCHANGED <<disk, pc, algorithm, direction, current_head, requests, total_movement,
                 sequence, movements, step, current_direction, i, result, synthetic,
                 caller_list, ref, demo, all_results, efficiency>>

NextRepeat == Next \/ Keep

SpecRepeat == Init /\ [][NextRepeat]_vars

----------------------------------------------------------------------------
\* The comparison of __main__: the four results are put into all_results in
\* the order FCFS, SSTF, SCAN, C-SCAN and display_comprehensive_comparison
\* computes one efficiency per entry.

ComparisonOrder == <<"FCFS", "SSTF", "SCAN", "C-SCAN">>

\* all_results['...'] = ..._results
Store ==
  /\ pc = "done"
  /\ Len(all_results) < Len(ComparisonOrder)
  /\ result.algorithm = ComparisonOrder[Len(all_results) + 1]
  /\ all_results' = Append(all_results, result)
  /\ UNCHANGED <<disk, pc, algorithm, direction, current_head, requests, total_movement,
                 sequence, movements, step, current_direction, i, result, synthetic,
                 caller_list, ref, saved, demo, efficiency>>

\* min_movement = min(result['total_movement'] for result in all_results.values())
MinMovement(results) == SeqMin([k \in 1..Len(results) |-> results[k].total_movement])

\* efficiency = (min_movement / results['total_movement']) * 100 for every
\* entry, kept as the exact quotient; the int division raises
\* ZeroDivisionError on a zero total_movement and nothing is displayed
Efficiencies(results) ==
  IF \E k \in 1..Len(results) : results[k].total_movement = 0
  THEN [shown |-> TRUE, fault |-> TRUE, rows |-> <<>>]
  ELSE [shown |-> TRUE, fault |-> FALSE,
        rows |-> [k \in 1..Len(results) |->
                    [num |-> MinMovement(results) * 100, den |-> results[k].total_movement]]]

\* disk.display_comprehensive_comparison(all_results)
Display ==
  /\ pc = "done"
  /\ Len(all_results) = Len(ComparisonOrder)
  /\ ~efficiency.shown
  /\ efficiency' = Efficiencies(all_results)
  /\ UNCHANGED <<disk, pc, algorithm, direction, current_head, requests, total_movement,
                 sequence, movements, step, current_direction, i, result, synthetic,
                 caller_list, ref, saved, demo, all_results>>

NextCompare == Next \/ Store \/ Display

SpecCompare == Init /\ [][NextCompare]_vars

----------------------------------------------------------------------------
\* workload_starvation_demo.py: its Disk has the same constructor; its four
\* methods return (total_movement, sequence) and are modelled as functions of
\* the Disk, applied in one step each.

\* sorted(list)
RECURSIVE Sorted(_)
Sorted(s) ==
  IF s = <<>> THEN <<>>
  ELSE LET m == SeqMin(s) IN <<m>> \o Sorted(Remove(s, m))

\* list[::-1]
Reversed(s) == [k \in 1..Len(s) |-> s[Len(s) + 1 - k]]

\* for r in rs: total_movement += abs(current_head - r); sequence.append(r); current_head = r
RECURSIVE DemoWalk(_, _)
DemoWalk(st, rs) ==
  IF rs = <<>> THEN st
  ELSE DemoWalk([total_movement |-> st.total_movement + Abs(st.current_head - rs[1]),
                 sequence |-> Append(st.sequence, rs[1]),
                 current_head |-> rs[1]], Tail(rs))

DemoStart(d) == [total_movement |-> 0, sequence |-> <<>>, current_head |-> d.current_head]

DemoFcfs(d) == DemoWalk(DemoStart(d), d.request_queue)

\* while requests: closest = min(...); ...; requests.remove(closest)
RECURSIVE DemoSstfLoop(_, _)
DemoSstfLoop(st, reqs) ==
  IF reqs = <<>> THEN st
  ELSE LET closest == Closest(reqs, st.current_head)
       IN  DemoSstfLoop(DemoWalk(st, <<closest>>), Remove(reqs, closest))

DemoSstf(d) == DemoSstfLoop(DemoStart(d), d.request_queue)

DemoScan(d, dir) ==
  LET reqs == Sorted(d.request_queue)
      head == d.current_head
  IN  IF dir = "right"
      THEN DemoWalk(DemoStart(d), SelectSeq(reqs, LAMBDA r : r >= head)
                                    \o Reversed(SelectSeq(reqs, LAMBDA r : r < head)))
      ELSE DemoWalk(DemoStart(d), Reversed(SelectSeq(reqs, LAMBDA r : r <= head))
                                    \o SelectSeq(reqs, LAMBDA r : r > head))

DemoCScan(d, dir) ==
  LET reqs == Sorted(d.request_queue)
      head == d.current_head
      right == SelectSeq(reqs, LAMBDA r : r >= head)
      left == SelectSeq(reqs, LAMBDA r : r < head)
      swept == DemoWalk(DemoStart(d), right)
  IN  IF dir = "right"
      THEN IF left # <<>>
           THEN DemoWalk([total_movement |-> swept.total_movement
                             + Abs(swept.current_head - (d.total_cylinders - 1)),
                          sequence |-> swept.sequence,
                          current_head |-> 0], left)
           ELSE swept
      ELSE DemoStart(d)

\* a demo method is called and returns
DemoReturn(alg, dir, st) ==
  /\ pc \in {"idle", "done"}
  /\ demo' = [algorithm |-> alg, direction |-> dir,
              total_movement |-> st.total_movement, sequence |-> st.sequence]
  /\ UNCHANGED <<disk, pc, algorithm, direction, current_head, requests, total_movement,
                 sequence, movements, step, current_direction, i, result, synthetic,
                 caller_list, ref, saved, all_results, efficiency>>

DemoFcfsCall == DemoReturn("FCFS", "none", DemoFcfs(disk))

DemoSstfCall == DemoReturn("SSTF", "none", DemoSstf(disk))

DemoScanCall == \E dir \in Directions : DemoReturn("SCAN", dir, DemoScan(disk, dir))

DemoCScanCall == \E dir \in Directions : DemoReturn("C-SCAN", dir, DemoCScan(disk, dir))

NextDemo == Next \/ DemoFcfsCall \/ DemoSstfCall \/ DemoScanCall \/ DemoCScanCall

SpecDemo == Init /\ [][NextDemo]_vars

----------------------------------------------------------------------------
\* The same methods on arguments nobody validated: Disk.__init__ stores what
\* it is given and the schedule methods compare direction with 'right' only.

UncheckedDisks ==
  {NewDisk(n, h, q) : n \in (-1)..MaxUncheckedCylinders, h \in (-1)..MaxUncheckedCylinders,
                      q \in SeqsUpTo((-1)..MaxUncheckedCylinders, MaxUncheckedRequests)}

DirectionTokens == {"right", "left", "up"}

InitUnchecked ==
  /\ disk \in UncheckedDisks
  /\ pc = "idle"
  /\ algorithm = "none"
  /\ direction = "none"
  /\ current_head = disk.current_head
  /\ requests = <<>>
  /\ total_movement = 0
  /\ sequence = <<>>
  /\ movements = <<>>
  /\ step = 1
  /\ current_direction = "none"
  /\ i = 0
  /\ result = NoResult
  /\ synthetic = <<>>
  /\ caller_list = disk.request_queue
  /\ ref = CtorRefs
  /\ saved = NoResult
  /\ demo = NoDemo
  /\ all_results = <<>>
  /\ efficiency = NotShown

ScanCallUnchecked == \E dir \in DirectionTokens : Enter("SCAN", dir)

CScanCallUnchecked == \E dir \in DirectionTokens : Enter("C-SCAN", dir)

NextUnchecked ==
  \/ FcfsCall \/ FcfsStep \/ FcfsReturn
  \/ SstfCall \/ SstfStep \/ SstfReturn
  \/ ScanCallUnchecked \/ ScanRightService \/ ScanRightBoundary
  \/ ScanLeftService \/ ScanLeftBoundary \/ ScanReturn
  \/ CScanCallUnchecked \/ CScanRightService \/ CScanRightWrap
  \/ CScanLeftService \/ CScanLeftWrap \/ CScanReturn

SpecUnchecked == InitUnchecked /\ [][NextUnchecked]_vars

----------------------------------------------------------------------------
\* Vocabulary of the properties

RECURSIVE SumSeq(_)
SumSeq(s) == IF s = <<>> THEN 0 ELSE s[1] + SumSeq(Tail(s))

\* number of occurrences of v in s
Count(s, v) == Cardinality({k \in 1..Len(s) : s[k] = v})

\* number of occurrences of v among the entries of sequence that are requests
ServicedCount(v) == Cardinality({k \in 1..Len(sequence) : sequence[k] = v /\ ~synthetic[k]})

\* positions of the synthetic visits in sequence
SyntheticAt == {k \in 1..Len(synthetic) : synthetic[k]}

\* the head position before entry k of seq, walking from the start head
Before(seq, k) == IF k = 1 THEN disk.current_head ELSE seq[k - 1]

\* a step of the running method that stays inside its loop
LoopStep(alg) == pc = "loop" /\ pc' = "loop" /\ algorithm = alg

LastCylinder == disk.total_cylinders - 1

----------------------------------------------------------------------------
\* C1: for every valid input and each of the four policies, the returned
\* total_movement equals the sum of the entries of the returned movements,
\* C-SCAN runs with a wrap jump included.
C1_TotalIsSumOfMovements ==
  pc = "done" => result.total_movement = SumSeq(result.movements)

\* C2: movements is as long as sequence and is reproduced by re-walking
\* sequence from the start head: movements[k] = |sequence[k] - sequence[k-1]|
\* with the start head before the first entry, and the re-walked sum is
\* total_movement.
C2_MovementsRewalkSequence ==
  pc = "done" =>
    /\ Len(result.movements) = Len(result.sequence)
    /\ \A k \in 1..Len(result.sequence) :
         result.movements[k] = Abs(result.sequence[k] - Before(result.sequence, k))
    /\ SumSeq([k \in 1..Len(result.sequence) |->
                 Abs(result.sequence[k] - Before(result.sequence, k))])
         = result.total_movement

\* C3: with the synthetic boundary visits removed, the returned sequence is a
\* permutation with multiplicity of the original request queue: every value
\* is serviced exactly as often as it occurs in the input.
C3_ServicedIsPermutation ==
  pc = "done" =>
    /\ result.sequence = sequence
    /\ Len(synthetic) = Len(sequence)
    /\ \A v \in {sequence[k] : k \in 1..Len(sequence)}
             \cup {disk.original_requests[k] : k \in 1..Len(disk.original_requests)} :
         ServicedCount(v) = Count(disk.original_requests, v)

C3_Witness ==
  /\ pc = "done" /\ algorithm \in {"SCAN", "C-SCAN"}
  /\ SyntheticAt # {}
  /\ \E a, b \in 1..Len(disk.original_requests) :
       a # b /\ disk.original_requests[a] = disk.original_requests[b]

\* C4: FCFS services the requests in input order: after i steps the sequence
\* is the first i requests, movement k is |head before step k - request k|,
\* the head is at the last serviced request, and the returned sequence is
\* the request queue.
C4_FcfsInputOrder ==
  algorithm = "FCFS" =>
    /\ sequence = SubSeq(disk.request_queue, 1, i)
    /\ Len(movements) = i
    /\ \A k \in 1..i :
         movements[k] = Abs(Before(disk.request_queue, k) - disk.request_queue[k])
    /\ current_head = IF i = 0 THEN disk.current_head ELSE disk.request_queue[i]
    /\ pc = "done" => /\ result.sequence = disk.request_queue
                      /\ result.final_position = current_head

C4_Witness ==
  /\ pc = "done" /\ algorithm = "FCFS"
  /\ Len(disk.request_queue) = 3
  /\ disk.request_queue[1] > disk.request_queue[2]
  /\ disk.request_queue[1] = disk.request_queue[3]

\* C5: every SSTF step services a request at minimal distance from the head
\* among the remaining ones, the earliest such request in the remaining
\* order when several are equidistant, and removes exactly one occurrence
\* of the serviced value from the working copy.
C5_SstfStepRule ==
  LoopStep("SSTF") =>
    /\ Len(sequence') = Len(sequence) + 1
    /\ LET x == sequence'[Len(sequence')]
       IN  /\ \E k \in 1..Len(requests) :
                /\ requests[k] = x
                /\ \A j \in 1..Len(requests) :
                     Abs(requests[j] - current_head) >= Abs(x - current_head)
                /\ \A j \in 1..(k - 1) :
                     Abs(requests[j] - current_head) > Abs(x - current_head)
           /\ Len(requests') = Len(requests) - 1
           /\ \A v \in {requests[k] : k \in 1..Len(requests)} :
                Count(requests', v) = Count(requests, v) - (IF v = x THEN 1 ELSE 0)

C5_SstfClosestFirst == [][C5_SstfStepRule]_vars

\* a first step decided between two different equidistant requests, with a
\* duplicate of the serviced value left in the working copy
C5_Witness ==
  /\ algorithm = "SSTF" /\ pc = "loop" /\ Len(sequence) = 1
  /\ \E b \in 1..Len(disk.request_queue) :
       /\ disk.request_queue[b] # sequence[1]
       /\ Abs(disk.request_queue[b] - disk.current_head)
            = Abs(sequence[1] - disk.current_head)
  /\ \E k \in 1..Len(requests) : requests[k] = sequence[1]

\* the step services the smallest remaining request >= the head
ServicesNextRight ==
  /\ Len(sequence') = Len(sequence) + 1
  /\ synthetic' = Append(synthetic, FALSE)
  /\ LET x == sequence'[Len(sequence')]
     IN  /\ x >= current_head
         /\ \E k \in 1..Len(requests) : requests[k] = x
         /\ \A k \in 1..Len(requests) : requests[k] >= current_head => requests[k] >= x
         /\ movements' = Append(movements, x - current_head)
         /\ current_head' = x
         /\ Len(requests') = Len(requests) - 1
         /\ Count(requests', x) = Count(requests, x) - 1

\* the step services the largest remaining request <= the head
ServicesNextLeft ==
  /\ Len(sequence') = Len(sequence) + 1
  /\ synthetic' = Append(synthetic, FALSE)
  /\ LET x == sequence'[Len(sequence')]
     IN  /\ x <= current_head
         /\ \E k \in 1..Len(requests) : requests[k] = x
         /\ \A k \in 1..Len(requests) : requests[k] <= current_head => requests[k] <= x
         /\ movements' = Append(movements, current_head - x)
         /\ current_head' = x
         /\ Len(requests') = Len(requests) - 1
         /\ Count(requests', x) = Count(requests, x) - 1

\* the step records one synthetic visit of boundary cylinder b
VisitsBoundary(b) ==
  /\ requests # <<>>
  /\ requests' = requests
  /\ sequence' = Append(sequence, b)
  /\ movements' = Append(movements, Abs(current_head - b))
  /\ synthetic' = Append(synthetic, TRUE)

\* C6, the steps of SCAN: moving right it services the smallest remaining
\* request >= the head while there is one, and otherwise makes one synthetic
\* step to the last cylinder and turns left; moving left is the mirror image
\* with boundary 0.
C6_ScanStepRule ==
  LoopStep("SCAN") =>
    /\ current_direction = "right" =>
         IF \E k \in 1..Len(requests) : requests[k] >= current_head
         THEN ServicesNextRight /\ current_direction' = "right"
         ELSE /\ VisitsBoundary(LastCylinder)
              /\ total_movement' = total_movement + (LastCylinder - current_head)
              /\ current_head' = LastCylinder
              /\ current_direction' = "left"
    /\ current_direction = "left" =>
         IF \E k \in 1..Len(requests) : requests[k] <= current_head
         THEN ServicesNextLeft /\ current_direction' = "left"
         ELSE /\ VisitsBoundary(0)
              /\ total_movement' = total_movement + current_head
              /\ current_head' = 0
              /\ current_direction' = "right"

\* C6, the shape of a SCAN run: at most one synthetic step; the entries
\* before it are monotone in the initial direction and the entries from it
\* on are monotone in the opposite direction; for the example input the
\* result is 82,140,170,190,199,43,24,16 with final position 16.
C6_ScanShape ==
  algorithm = "SCAN" =>
    /\ Cardinality(SyntheticAt) <= 1
    /\ current_direction = IF SyntheticAt = {} THEN direction
                           ELSE IF direction = "right" THEN "left" ELSE "right"
    /\ \A a, b \in 1..Len(sequence) :
         a < b =>
           /\ (\A f \in SyntheticAt : b < f) =>
                IF direction = "right" THEN sequence[a] <= sequence[b]
                                       ELSE sequence[a] >= sequence[b]
           /\ (\E f \in SyntheticAt : f <= a) =>
                IF direction = "right" THEN sequence[a] >= sequence[b]
                                       ELSE sequence[a] <= sequence[b]
    /\ (pc = "done" /\ disk = ExampleDisk /\ direction = "right") =>
         /\ result.sequence = <<82, 140, 170, 190, 199, 43, 24, 16>>
         /\ result.final_position = 16

\* C6: SCAN services the requests ahead of the head in order, makes exactly
\* one synthetic boundary step only when none is left ahead, turns, and
\* services the rest in the opposite order.
C6_ScanSweepAndReverse == [](C6_ScanShape) /\ [][C6_ScanStepRule]_vars

C6_Witness ==
  /\ pc = "done" /\ algorithm = "SCAN" /\ direction = "right" /\ disk = ExampleDisk
  /\ SyntheticAt = {5}

\* C7, the steps of C-SCAN: moving right it services the smallest remaining
\* request >= the head while there is one; otherwise it records a boundary
\* visit of the last cylinder costing |head - last cylinder|, adds the jump
\* cost total_cylinders - 1 to total_movement as a second counted step, and
\* resumes from head 0; moving left is the mirror image.
C7_CScanStepRule ==
  LoopStep("C-SCAN") =>
    /\ current_direction = "right" =>
         IF \E k \in 1..Len(requests) : requests[k] >= current_head
         THEN ServicesNextRight /\ step' = step + 1
         ELSE /\ VisitsBoundary(LastCylinder)
              /\ total_movement' = total_movement + (LastCylinder - current_head)
                                                  + (disk.total_cylinders - 1)
              /\ step' = step + 2
              /\ current_head' = 0
    /\ current_direction = "left" =>
         IF \E k \in 1..Len(requests) : requests[k] <= current_head
         THEN ServicesNextLeft /\ step' = step + 1
         ELSE /\ VisitsBoundary(0)
              /\ total_movement' = total_movement + current_head
                                                  + (disk.total_cylinders - 1)
              /\ step' = step + 2
              /\ current_head' = LastCylinder

\* C7, the example: 82,140,170,190, boundary 199, the jump contributing 199,
\* then 16,24,43 and final position 43.
C7_CScanExample ==
  (pc = "done" /\ algorithm = "C-SCAN" /\ disk = ExampleDisk /\ direction = "right") =>
    /\ result.sequence = <<82, 140, 170, 190, 199, 16, 24, 43>>
    /\ result.total_movement = SumSeq(result.movements) + 199
    /\ result.final_position = 43

\* C7: C-SCAN's end-of-sweep branch is a boundary visit plus a counted wrap
\* jump of cost total_cylinders - 1, after which the sweep resumes from the
\* opposite end.
C7_CScanWrapAccounting == [](C7_CScanExample) /\ [][C7_CScanStepRule]_vars

C7_Witness ==
  /\ pc = "done" /\ algorithm = "C-SCAN" /\ direction = "right" /\ disk = ExampleDisk
  /\ SyntheticAt = {5} /\ step = 10

\* C8, the steps: every C-SCAN step other than the wrap jump leaves the head
\* on the side of its previous position that the direction points to.
C8_CScanStepRule ==
  (LoopStep("C-SCAN") /\ Len(requests') # Len(requests)) =>
    /\ direction = "right" => current_head' >= current_head
    /\ direction = "left" => current_head' <= current_head

\* C8: C-SCAN never reverses: the current direction is the initial
\* direction throughout the run, and only the wrap jump moves the head
\* against it.
C8_CScanNeverReverses ==
  [](algorithm = "C-SCAN" => current_direction = direction) /\ [][C8_CScanStepRule]_vars

C8_Witness ==
  /\ pc = "done" /\ algorithm = "C-SCAN" /\ direction = "right"
  /\ SyntheticAt # {} /\ ~synthetic[1]
  /\ Len(sequence) = Len(disk.request_queue) + 1
  /\ Len(disk.request_queue) >= 2

\* C9: for an empty request queue every policy returns an empty sequence,
\* empty movements, total_movement 0, average_seek 0 computed without a
\* division by zero, and the start head as final position; no boundary or
\* wrap step is made.
C9_EmptyQueueResult ==
  (pc = "done" /\ disk.original_requests = <<>>) =>
    /\ result.sequence = <<>>
    /\ result.movements = <<>>
    /\ result.total_movement = 0
    /\ result.average_seek.den # 0
    /\ result.average_seek.num = 0
    /\ result.final_position = disk.current_head
    /\ synthetic = <<>>
    /\ step = 1

C9_Witness ==
  /\ pc = "done" /\ disk.original_requests = <<>> /\ algorithm = "C-SCAN"
  /\ disk.current_head > 0

\* C10: for a non-empty queue average_seek is total_movement divided by the
\* number of original requests, whatever the number of synthetic steps in
\* sequence.
C10_AverageOverOriginalRequests ==
  (pc = "done" /\ disk.original_requests # <<>>) =>
    /\ result.average_seek.den # 0
    /\ result.average_seek.num * Len(disk.original_requests)
         = result.total_movement * result.average_seek.den

C10_Witness ==
  /\ pc = "done" /\ disk.original_requests # <<>>
  /\ Len(result.sequence) > Len(disk.original_requests)
  /\ result.total_movement > 0

\* C11: when total_cylinders <= 0, or the start head or a request lies
\* outside 0..total_cylinders-1, a schedule method fails before any
\* scheduling step: nothing is serviced, no movement is accumulated and no
\* result is returned.
C11_InvalidInputRejected ==
  ~IsValid(disk) => /\ sequence = <<>>
                    /\ total_movement = 0
                    /\ result = NoResult

\* C12: scan_schedule and c_scan_schedule called with a direction token
\* other than 'right' and 'left' fail and return no result; the token is
\* never treated as one of the two valid directions.
C12_UnknownDirectionRejected ==
  (IsValid(disk) /\ algorithm \in {"SCAN", "C-SCAN"} /\ direction \notin Directions) =>
    /\ sequence = <<>>
    /\ total_movement = 0
    /\ result = NoResult

\* number of entries of sequence that are serviced requests
ServiceSteps == Cardinality({k \in 1..Len(sequence) : ~synthetic[k]})

\* C13, the step counts: a run makes at most n service steps and, for SCAN
\* and C-SCAN only, at most one boundary visit (in C-SCAN followed by one
\* wrap jump, which the step counter counts); a finished run has made
\* exactly n service steps.
C13_StepCounts ==
  pc \in {"loop", "done"} =>
    /\ Len(synthetic) = Len(sequence)
    /\ ServiceSteps <= Len(disk.request_queue)
    /\ Cardinality(SyntheticAt) <= (IF algorithm \in {"SCAN", "C-SCAN"} THEN 1 ELSE 0)
    /\ algorithm = "C-SCAN" => step = 1 + ServiceSteps + 2 * Cardinality(SyntheticAt)
    /\ algorithm \in {"SSTF", "SCAN"} => step = 1 + Len(sequence)
    /\ pc = "done" => ServiceSteps = Len(disk.request_queue)

\* C13: on valid input every schedule method terminates, after n service
\* steps plus at most one boundary visit (and wrap jump).
C13_Terminates == [](C13_StepCounts) /\ (pc = "loop" ~> pc = "done")

C13_Witness ==
  /\ pc = "done" /\ algorithm = "C-SCAN" /\ direction = "left"
  /\ Cardinality(SyntheticAt) = 1
  /\ Len(disk.request_queue) = 3 /\ step = 6

\* C14, the step: a call that returns after an earlier call of the same
\* method with the same direction returns what that call returned.
C14_ReturnsSaved ==
  (pc = "loop" /\ pc' = "done" /\ saved.algorithm = algorithm /\ saved.direction = direction)
    => result' = saved

\* C14: calling the same schedule method twice on the same Disk with the
\* same direction, with any other schedule calls in between, yields
\* identical results.
C14_RepeatedCallSameResult == [][C14_ReturnsSaved]_vars

\* an SSTF result was kept, a C-SCAN run was made since, and SSTF returned again
C14_Witness ==
  /\ pc = "done" /\ algorithm = "SSTF" /\ saved.algorithm = "SSTF"
  /\ result = saved
  /\ Len(result.sequence) = 3
  /\ result.total_movement > 0

\* C15, the objects: the Disk holds copies of the caller's list, a running
\* method works on a list object of its own, and the Disk's queue and
\* original_requests still have the contents the caller passed.
C15_PrivateCopies ==
  /\ ref.caller \notin {ref.request_queue, ref.original_requests, ref.requests}
  /\ ref.requests \notin {ref.request_queue, ref.original_requests}
  /\ disk.request_queue = caller_list
  /\ disk.original_requests = caller_list

\* C15: no schedule call changes the Disk's current_head, request_queue or
\* original_requests, nor the caller's list, which the Disk does not alias.
C15_CallsLeaveDiskUnchanged ==
  [](C15_PrivateCopies) /\ [][disk' = disk /\ caller_list' = caller_list]_vars

\* an SSTF run has consumed two entries of its working copy and moved its
\* local head, while the Disk's queue and head are as constructed
C15_Witness ==
  /\ pc = "loop" /\ algorithm = "SSTF" /\ Len(sequence) = 2
  /\ Len(requests) = 1 /\ Len(disk.request_queue) = 3
  /\ current_head # disk.current_head

\* C16: in every state of an SSTF, SCAN or C-SCAN run the remaining working
\* copy together with the requests serviced so far is, as a multiset, the
\* original queue; so the working copy holds no foreign value and no value
\* is serviced more often than it occurs in the original queue.
C16_RemainingPlusServiced ==
  (pc \in {"loop", "done"} /\ algorithm \in {"SSTF", "SCAN", "C-SCAN"}) =>
    /\ Len(synthetic) = Len(sequence)
    /\ \A v \in {requests[k] : k \in 1..Len(requests)}
             \cup {sequence[k] : k \in 1..Len(sequence)}
             \cup {disk.original_requests[k] : k \in 1..Len(disk.original_requests)} :
         Count(requests, v) + ServicedCount(v) = Count(disk.original_requests, v)

\* mid-run, after a boundary visit, with a duplicated value half serviced
C16_Witness ==
  /\ pc = "loop" /\ algorithm \in {"SCAN", "C-SCAN"}
  /\ SyntheticAt # {}
  /\ \E k \in 1..Len(requests) : ServicedCount(requests[k]) = 1

\* v lies in the interval lo..hi
Near(v, lo, hi) == lo <= v /\ v <= hi

\* v is farther from every point of lo..hi than the interval is wide
Far(v, lo, hi) == (v < lo /\ lo - v > hi - lo) \/ (v > hi /\ v - hi > hi - lo)

\* C17: whenever the requests split into a near group inside an interval
\* that contains the start head and a far group farther from every point
\* of the interval than the interval is wide, SSTF services every near
\* request before any far one; for the starvation workload 48..52 all come
\* before 195 and 5.
C17_SstfClusterFirst ==
  (pc = "done" /\ algorithm = "SSTF") =>
    /\ \A lo \in 0..disk.current_head, hi \in disk.current_head..(disk.total_cylinders - 1) :
         (\A k \in 1..Len(disk.request_queue) :
            Near(disk.request_queue[k], lo, hi) \/ Far(disk.request_queue[k], lo, hi))
         => \A a, b \in 1..Len(result.sequence) :
              (Far(result.sequence[a], lo, hi) /\ Near(result.sequence[b], lo, hi)) => b < a
    /\ disk = StarvationDisk =>
         /\ {result.sequence[k] : k \in 1..5} = 48..52
         /\ {result.sequence[k] : k \in 6..7} = {195, 5}

C17_Witness ==
  /\ pc = "done" /\ algorithm = "SSTF" /\ disk = StarvationDisk
  /\ result.sequence = <<50, 51, 52, 49, 48, 5, 195>>

\* C18: in workload_starvation_demo.py the sequence returned by each of the
\* four methods, for both directions, is a permutation with multiplicity of
\* the request queue.
C18_DemoSequenceIsPermutation ==
  demo.algorithm # "none" =>
    \A v \in {demo.sequence[k] : k \in 1..Len(demo.sequence)}
            \cup {disk.request_queue[k] : k \in 1..Len(disk.request_queue)} :
      Count(demo.sequence, v) = Count(disk.request_queue, v)

\* C19: for direction 'right' the C-SCAN of workload_starvation_demo.py
\* returns the total movement that the C-SCAN of disksimulation.py returns
\* for the same Disk.
C19_CScanCostsAgree ==
  (pc = "done" /\ algorithm = "C-SCAN" /\ direction = "right"
     /\ demo.algorithm = "C-SCAN" /\ demo.direction = "right")
    => demo.total_movement = result.total_movement

\* C20: with a non-empty queue the last element of the returned sequence
\* is a serviced request, not a synthetic boundary visit, and final_position
\* is that element.
C20_EndsOnRequest ==
  (pc = "done" /\ disk.original_requests # <<>>) =>
    /\ result.sequence # <<>>
    /\ result.sequence = sequence
    /\ ~synthetic[Len(sequence)]
    /\ \E k \in 1..Len(disk.original_requests) :
         disk.original_requests[k] = result.sequence[Len(result.sequence)]
    /\ result.final_position = result.sequence[Len(result.sequence)]

\* a C-SCAN run that wrapped and ended away from both ends and from the start
C20_Witness ==
  /\ pc = "done" /\ algorithm = "C-SCAN" /\ SyntheticAt # {}
  /\ result.final_position \notin {0, disk.total_cylinders - 1, disk.current_head}

\* C21: for a non-empty queue, N = total_cylinders and h the start head,
\* SCAN's total movement is: direction 'right', max(requests) - h when
\* every request is >= h and (N-1-h) + (N-1-min(requests)) otherwise;
\* direction 'left', h - min(requests) when every request is <= h and
\* h + max(requests) otherwise.
C21_ScanClosedForm ==
  (pc = "done" /\ algorithm = "SCAN" /\ disk.request_queue # <<>>) =>
    LET q == disk.request_queue
        h == disk.current_head
        N == disk.total_cylinders
        hi == CHOOSE x \in {q[k] : k \in 1..Len(q)} : \A k \in 1..Len(q) : q[k] <= x
        lo == CHOOSE x \in {q[k] : k \in 1..Len(q)} : \A k \in 1..Len(q) : q[k] >= x
    IN  /\ direction = "right" =>
             result.total_movement =
               IF \A k \in 1..Len(q) : q[k] >= h THEN hi - h
               ELSE (N - 1 - h) + (N - 1 - lo)
        /\ direction = "left" =>
             result.total_movement =
               IF \A k \in 1..Len(q) : q[k] <= h THEN h - lo
               ELSE h + hi

\* a left-first run that turned at cylinder 0 and ended short of the last cylinder
C21_Witness ==
  /\ pc = "done" /\ algorithm = "SCAN" /\ direction = "left"
  /\ SyntheticAt # {} /\ ~synthetic[1]
  /\ result.total_movement > disk.current_head
  /\ result.final_position < disk.total_cylinders - 1

\* C22: on valid input the head of a running or finished method is always
\* a cylinder in 0..total_cylinders-1, right after a SCAN boundary visit and
\* a C-SCAN wrap jump too, and so is every element of sequence.
C22_HeadStaysOnDisk ==
  /\ current_head \in 0..(disk.total_cylinders - 1)
  /\ \A k \in 1..Len(sequence) : sequence[k] \in 0..(disk.total_cylinders - 1)
  /\ pc = "done" => result.final_position \in 0..(disk.total_cylinders - 1)

\* right after a C-SCAN wrap to the left: the head sits on the last cylinder
\* and the boundary visit of cylinder 0 is the latest entry of sequence
C22_Witness ==
  /\ pc = "loop" /\ algorithm = "C-SCAN" /\ direction = "left"
  /\ sequence # <<>> /\ synthetic[Len(sequence)]
  /\ current_head = disk.total_cylinders - 1
  /\ disk.current_head < disk.total_cylinders - 1

\* C23: given the results of the four schedulers for any valid input,
\* display_comprehensive_comparison computes the efficiency ratio
\* min_movement / total_movement of every entry without a division fault,
\* also for an empty queue and for requests that all equal the start head.
C23_EfficiencyWithoutFault ==
  efficiency.shown => /\ ~efficiency.fault
                      /\ Len(efficiency.rows) = Len(all_results)

====
